---- MODULE Spec2Model ----
(***************************************************************************)
(* State-machine model of the hostfxr context wrapper of netcorehost       *)
(* (src/src/hostfxr/context.rs): the typestate-guarded context handle, its *)
(* explicit and automatic close, run_app, and the runtime property         *)
(* protocol (get / set / remove / two-phase get-all).                      *)
(*                                                                         *)
(* The wrapper side is one action per public operation.  The native        *)
(* hosting library is the environment: each native entry point is an       *)
(* operator over the native state, and the result code it returns is       *)
(* drawn from a small set inside the calling action.                       *)
(***************************************************************************)
EXTENDS Integers, Sequences, FiniteSets, TLC

----------------------------------------------------------------------------
(* Bounds of the model *)

MaxContexts == 2        \* context values (and native handles) ever created
MaxNames    == 1        \* distinct property names
MaxValues   == 1        \* distinct non-empty property values

----------------------------------------------------------------------------
(* Native result codes (i32) *)

Success                       == 0
Success_HostAlreadyInitialized == 1
InvalidArgFailure             == -2147450751
HostApiBufferTooSmall         == -2147450728
HostInvalidState              == -2147450717
HostPropertyNotFound          == -2147450716

\* the error codes the hosting layer defines (the part the model uses)
KnownErrorCodes ==
    {InvalidArgFailure, HostApiBufferTooSmall, HostInvalidState, HostPropertyNotFound}

\* the least 32-bit integer
MinI32 == -2147483647 - 1

\* exit codes an application run by run_app may produce; one of them is
\* equal to a hosting result code
AppExitCodes == {0, 42, -1, HostInvalidState, MinI32}

\* "no native code / no app exit code": a value no modelled call returns
NoCode == 2147483646 + 1

\* HostingResult::from(i32): a code with the sign bit set is an error
\* (a known kind, or the Unknown catch-all), every other code is a success.
HostingResult_from(code) ==
    IF code < 0
    THEN [tag |-> "Err", code |-> code,
          kind |-> IF code = HostApiBufferTooSmall THEN "HostApiBufferTooSmall"
                   ELSE IF code = HostPropertyNotFound THEN "HostPropertyNotFound"
                   ELSE IF code = InvalidArgFailure THEN "InvalidArgFailure"
                   ELSE IF code = HostInvalidState THEN "HostInvalidState"
                   ELSE "Unknown"]
    ELSE [tag |-> "Ok", code |-> code,
          kind |-> IF code = Success THEN "Success"
                   ELSE IF code = Success_HostAlreadyInitialized
                        THEN "Success_HostAlreadyInitialized"
                   ELSE "Unknown"]

\* HostingResult::into_result: the Result<HostingSuccess, HostingError> inside
into_result(hr) == hr

\* the value a wrapper operation returns when it returns nothing
UnitResult == [tag |-> "Unit", code |-> NoCode, kind |-> "Unit"]

----------------------------------------------------------------------------
(* Platform strings *)

NUL == 0

\* PdCStr values: code-unit sequences free of nul
Names  == {<<k>> : k \in 1..MaxNames}
Values == {<< >>} \cup {<<k, k>> : k \in 1..MaxValues}

\* a property the runtime defines by itself (never written through the wrapper)
BuiltinName  == <<9, 9>>
BuiltinValue == <<9>>
AllNames     == Names \cup {BuiltinName}

\* PdCStr::as_ptr: pointer to the nul-terminated backing storage
as_ptr(s) == Append(s, NUL)

\* ptr::null()
NullPtr == << >>

\* what an uninitialised pointer slot holds, and what reading through it gives
Uninit  == <<-1>>
Garbage == <<-2>>

\* PdCStr::from_str_ptr: the string up to (not including) the first nul.
\* A pointer that is null or uninitialised addresses no nul-terminated
\* storage; the read through it is marked by Garbage.
from_str_ptr(p) ==
    IF \E j \in 1..Len(p) : p[j] = NUL
    THEN LET k == CHOOSE j \in 1..Len(p) :
                      p[j] = NUL /\ \A m \in 1..(j-1) : p[m] # NUL
         IN  SubSeq(p, 1, k - 1)
    ELSE Garbage

\* ToOwned for PdCStr: an owned copy with the same content
to_owned(s) == s

----------------------------------------------------------------------------
(* State *)

VARIABLES
    ctx,        \* the HostfxrContext values of the host program, by index
    hostfxr,    \* the state of the native hosting library
    written,    \* history: per name, the last successful write made through the wrapper
    loaders,    \* the AssemblyDelegateLoader values of the host program, by index
    held,       \* the property value the host program has kept from an earlier call
    ret         \* what the last completed wrapper operation returned

vars == <<ctx, hostfxr, written, loaders, held, ret>>

Objs    == 1..MaxContexts
Handles == 1..MaxContexts

InitializedForRuntimeConfig == "InitializedForRuntimeConfig"
InitializedForCommandLine   == "InitializedForCommandLine"

\* a slot in which no context value has been created yet
NoContext == [st |-> "none", tag |-> "none", handle |-> 0, count |-> 0]

\* HostfxrContext { handle, hostfxr, context_type }
HostfxrContext(handle, tag) ==
    [st |-> "live", tag |-> tag, handle |-> handle, count |-> 0]

\* a context value that was moved out of (consumed) or dropped
Gone(c) == [c EXCEPT !.st = "gone", !.tag = "none", !.count = 0]

NoCall == <<"none", 0, NullPtr, NullPtr>>

\* "no string" in a result, and the two history marks of a name
NoStr   == <<-3>>
Never   == <<-4>>
Removed == <<-5>>

\* DelegateLoader { get_load_assembly_and_get_function_pointer, get_function_pointer }
DelegateLoader(load, get) ==
    [get_load_assembly_and_get_function_pointer |-> load, get_function_pointer |-> get]

NoDelegateLoader == DelegateLoader(NoStr, NoStr)

\* no assembly-scoped loader in a slot
NoLoader == [st |-> "none", loader |-> NoDelegateLoader, assembly_path |-> NoStr,
             loaded |-> FALSE]

\* a property value in the hands of the host program: an owned PdCString
\* (.content is its own copy) or a borrowed &PdCStr into the buffer the native
\* side held for property .name of context .h at buffer generation .epoch;
\* .snap is the content the native buffer had when the value was returned
NoHeld == [kind |-> "none", h |-> 0, name |-> NoStr, epoch |-> 0,
           content |-> NoStr, snap |-> NoStr, op |-> "none"]

NoRet == [op |-> "none", obj |-> 0, rc |-> NoCode, res |-> UnitResult,
          name |-> NoStr, val |-> NoStr, keys |-> << >>, vals |-> << >>,
          cap |-> 0, ub |-> FALSE, exit |-> NoCode,
          flag |-> FALSE, calls |-> << >>, loader |-> NoDelegateLoader,
          from |-> "none", text |-> NoStr, hosting |-> UnitResult,
          kept |-> NoHeld, handle |-> 0]

----------------------------------------------------------------------------
(* The native hosting library.  Each entry point is an operator from the    *)
(* native state to the native state; every call records itself in .last and *)
(* marks .misuse when it is given a handle that is not open.                *)

Called(s, fn, h, a1, a2) ==
    [s EXCEPT !.last = <<fn, h, a1, a2>>,
              !.misuse = @ \/ (h \notin s.open)]

\* hostfxr_initialize_for_runtime_config / _for_dotnet_command_line: on a
\* success code the library hands out a new open handle
\* the next context would be the primary one: no primary context is open
\* and no app has been run in the process
PrimaryFree(s) == s.primaries \cap s.open = {} /\ s.ranApp = {}

hostfxr_initialize(s, rc) ==
    IF rc >= 0
    THEN [s EXCEPT !.allocated = @ + 1, !.open = @ \cup {s.allocated + 1},
                   !.primaries = IF rc = Success THEN @ \cup {s.allocated + 1} ELSE @]
    ELSE s

hostfxr_close(s, h) ==
    [Called(s, "hostfxr_close", h, NullPtr, NullPtr)
        EXCEPT !.open = @ \ {h}, !.closeCalls[h] = @ + 1]

\* ran: the hosting layer started the app and the app returned
hostfxr_run_app(s, h, ran) ==
    [Called(s, "hostfxr_run_app", h, NullPtr, NullPtr)
        EXCEPT !.runCalls[h] = @ + 1,
               !.ranApp = IF ran THEN @ \cup {h} ELSE @]

\* the is-primary query: its code, and its answer when the code is a success
hostfxr_is_primary(s, h) ==
    Called(s, "hostfxr_is_primary", h, NullPtr, NullPtr)

is_primary_out(s, h) == h \in s.primaries

hostfxr_get_runtime_delegate(s, h, type) ==
    Called(s, "hostfxr_get_runtime_delegate", h, type, NullPtr)

\* an entry of the list of native calls an operation made: the call and the
\* code it returned
Logged(s, rc) == [call |-> s.last, rc |-> rc]

\* the function pointer the library writes for a delegate type; nothing is
\* written on an error code
DelegatePtr(type) ==
    <<IF type = "hdt_load_assembly_and_get_function_pointer" THEN 5 ELSE 6>>

get_runtime_delegate_out(type, rc) == IF rc >= 0 THEN DelegatePtr(type) ELSE Uninit

\* the generations of the property buffers the model tells apart: every
\* successful change of the properties starts a new generation
MaxEpoch == 1

\* a null value pointer deletes the key; a successful change releases the
\* buffers handed out before it
hostfxr_set_runtime_property_value(s, h, name, value, rc) ==
    LET t == Called(s, "hostfxr_set_runtime_property_value", h, name, value)
    IN  IF rc >= 0
        THEN [t EXCEPT !.props[name] = value,
                       !.epoch = IF @ < MaxEpoch THEN @ + 1 ELSE @]
        ELSE t

\* the code and the out-parameter of hostfxr_get_runtime_property_value
get_property_rc(s, name) ==
    IF s.props[name] = NullPtr THEN HostPropertyNotFound ELSE Success

get_property_out(s, name) ==
    IF s.props[name] = NullPtr THEN Uninit ELSE s.props[name]

hostfxr_get_runtime_property_value(s, h, name) ==
    Called(s, "hostfxr_get_runtime_property_value", h, name, NullPtr)

\* managed names: the assembly of the loader in slot i, a type, its methods,
\* a delegate type, and the mark for an UnmanagedCallersOnly method
AssemblyPath(i) == <<20 + i>>
AssemblyPaths   == {AssemblyPath(i) : i \in 1..MaxContexts}
TypeName        == <<30>>
MethodNames     == {<<31>>, <<32>>}
DelegateTypeName == <<40>>
UNMANAGED_CALLERS_ONLY_METHOD == <<-6>>

\* the entry point of a managed method
FnPtr(method_name) == <<100 + method_name[1]>>

\* the delegate load_assembly_and_get_function_pointer: on a success code the
\* assembly has been loaded and the method resolved; .loads counts the loads
load_assembly_and_get_function_pointer(s, assembly_path, type_name, method_name, delegate_type_name, rc) ==
    [s EXCEPT !.last = <<"load_assembly_and_get_function_pointer", 0,
                         assembly_path \o type_name,
                         method_name \o delegate_type_name>>,
              !.loads[assembly_path] = IF rc >= 0 THEN @ + 1 ELSE @]

\* the delegate get_function_pointer: resolves a method of a loaded assembly
get_function_pointer(s, type_name, method_name, delegate_type_name, rc) ==
    [s EXCEPT !.last = <<"get_function_pointer", 0, type_name,
                         method_name \o delegate_type_name>>]

function_pointer_out(method_name, rc) == IF rc >= 0 THEN FnPtr(method_name) ELSE Uninit

FunctionCodes == {Success, InvalidArgFailure}
CloseCodes    == {Success, InvalidArgFailure}
InitCodes(s)  == {IF PrimaryFree(s) THEN Success ELSE Success_HostAlreadyInitialized,
                  InvalidArgFailure}
IsPrimaryCodes == {Success, HostInvalidState}
SetCodes      == {Success, HostInvalidState}
DelegateCodes == {Success, InvalidArgFailure}
RunErrorCodes == {InvalidArgFailure}
DelegateTypes == {"hdt_load_assembly_and_get_function_pointer",
                  "hdt_get_function_pointer"}

----------------------------------------------------------------------------
(* Initial state: a fresh process, no context.  props is the property set   *)
(* of the runtime instance of the process, which every context of the       *)
(* process is bound to; it starts with the runtime's own property.          *)

Init ==
    /\ ctx = [i \in Objs |-> NoContext]
    /\ hostfxr = [open       |-> {},
                  allocated  |-> 0,
                  closeCalls |-> [h \in Handles |-> 0],
                  runCalls   |-> [h \in Handles |-> 0],
                  misuse     |-> FALSE,
                  primaries  |-> {},
                  ranApp     |-> {},
                  loads      |-> [a \in AssemblyPaths |-> 0],
                  last       |-> NoCall,
                  epoch      |-> 0,
                  props      |-> [n \in {as_ptr(x) : x \in AllNames} |->
                                    IF n = as_ptr(BuiltinName)
                                    THEN as_ptr(BuiltinValue) ELSE NullPtr]]
    /\ written = [n \in Names |-> Never]
    /\ loaders = [i \in Objs |-> NoLoader]
    /\ held = NoHeld
    /\ ret = NoRet

\* the host program has taken the last returned value and is free to make
\* its next call
Ready == ret.op = "none"

Live(i) == Ready /\ ctx[i].st = "live"

\* the next free slot for a context value
NextObj == CHOOSE i \in Objs : ctx[i].st = "none" /\ \A j \in 1..(i-1) : ctx[j].st # "none"

----------------------------------------------------------------------------
(* Context creation *)

initialize(op, tag, rc) ==
    /\ Ready
    /\ \E i \in Objs : ctx[i].st = "none"
    /\ hostfxr' = [hostfxr_initialize(hostfxr, rc) EXCEPT !.last = <<op, 0, NullPtr, NullPtr>>]
    /\ LET r == into_result(HostingResult_from(rc))
       IN  /\ ctx' = IF r.tag = "Ok"
                     THEN [ctx EXCEPT ![NextObj] = HostfxrContext(hostfxr.allocated + 1, tag)]
                     ELSE ctx
           /\ ret' = [NoRet EXCEPT !.op = op, !.rc = rc, !.res = r,
                                   !.obj = IF r.tag = "Ok" THEN NextObj ELSE 0]
    /\ UNCHANGED <<written, loaders, held>>

initialize_for_runtime_config ==
    \E rc \in InitCodes(hostfxr) :
        initialize("initialize_for_runtime_config", InitializedForRuntimeConfig, rc)

initialize_for_dotnet_command_line ==
    \E rc \in InitCodes(hostfxr) :
        initialize("initialize_for_dotnet_command_line", InitializedForCommandLine, rc)

----------------------------------------------------------------------------
(* Closing *)

\* HostfxrContext::_close: one native close, its code decoded
_close(s, h, rc) ==
    [state  |-> hostfxr_close(s, h),
     result |-> into_result(HostingResult_from(rc))]

\* Drop that unwraps the close result instead of discarding it
Drop_drop_unwrap(s, h, rc) ==
    [state  |-> _close(s, h, rc).state,
     result |-> IF _close(s, h, rc).result.tag = "Err"
                THEN [tag |-> "Panic", code |-> rc, kind |-> "Panic"]
                ELSE UnitResult]

\* Drop for HostfxrContext: `let _ = self._close()`
Drop_drop(s, h, rc) ==
    [state  |-> _close(s, h, rc).state,
     result |-> UnitResult]

\* close(self) without ManuallyDrop: Drop runs on the consumed value as well
close_then_drop(i) ==
    /\ Ready /\ ctx[i].st = "live"
    /\ \E rc \in CloseCodes, rc2 \in CloseCodes :
         LET c == _close(hostfxr, ctx[i].handle, rc)
             d == Drop_drop(c.state, ctx[i].handle, rc2)
         IN  /\ hostfxr' = d.state
             /\ ret' = [NoRet EXCEPT !.op = "close", !.obj = i, !.rc = rc,
                                     !.res = c.result]
    /\ ctx' = [ctx EXCEPT ![i] = Gone(@)]
    /\ UNCHANGED <<written, loaders, held>>

\* close(&self): the context value stays usable after the native close
close_by_ref(i) ==
    /\ Ready /\ ctx[i].st = "live"
    /\ \E rc \in CloseCodes :
         LET c == _close(hostfxr, ctx[i].handle, rc)
         IN  /\ hostfxr' = c.state
             /\ ret' = [NoRet EXCEPT !.op = "close", !.obj = i, !.rc = rc,
                                     !.res = c.result]
    /\ UNCHANGED <<ctx, written, loaders, held>>

\* HostfxrContext::close(self): the value is wrapped in ManuallyDrop, so
\* Drop does not run for it
close(i) ==
    /\ Live(i)
    /\ \E rc \in CloseCodes :
         LET c == _close(hostfxr, ctx[i].handle, rc)
         IN  /\ hostfxr' = c.state
             /\ ret' = [NoRet EXCEPT !.op = "close", !.obj = i, !.rc = rc,
                                     !.res = c.result,
                                     !.calls = <<Logged(c.state, rc)>>]
    /\ ctx' = [ctx EXCEPT ![i] = Gone(@)]
    /\ UNCHANGED <<written, loaders, held>>

\* a context value goes out of scope without close() having been called
drop(i) ==
    /\ Live(i)
    /\ \E rc \in CloseCodes :
         LET d == Drop_drop(hostfxr, ctx[i].handle, rc)
         IN  /\ hostfxr' = d.state
             /\ ret' = [NoRet EXCEPT !.op = "drop", !.obj = i, !.rc = rc,
                                     !.res = d.result,
                                     !.calls = <<Logged(d.state, rc)>>]
    /\ ctx' = [ctx EXCEPT ![i] = Gone(@)]
    /\ UNCHANGED <<written, loaders, held>>

\* into_handle(self) without ManuallyDrop: self is dropped when it returns
into_handle_drop(i) ==
    /\ Live(i)
    /\ \E rc \in CloseCodes :
         hostfxr' = Drop_drop(hostfxr, ctx[i].handle, rc).state
    /\ ctx' = [ctx EXCEPT ![i] = Gone(@)]
    /\ ret' = [NoRet EXCEPT !.op = "into_handle", !.obj = i,
                            !.handle = ctx[i].handle]
    /\ UNCHANGED <<written, loaders, held>>

\* HostfxrContext::into_handle(self): ManuallyDrop, no close
into_handle(i) ==
    /\ Live(i)
    /\ ctx' = [ctx EXCEPT ![i] = Gone(@)]
    /\ ret' = [NoRet EXCEPT !.op = "into_handle", !.obj = i,
                            !.handle = ctx[i].handle]
    /\ UNCHANGED <<hostfxr, written, loaders, held>>

\* HostfxrContext::handle(&self): a copy of the handle field
handle(i) ==
    /\ Live(i)
    /\ ret' = [NoRet EXCEPT !.op = "handle", !.obj = i,
                            !.handle = ctx[i].handle]
    /\ UNCHANGED <<ctx, hostfxr, written, loaders, held>>

\* the raw handles the caller may hand to from_handle: open on the native
\* side and owned by no context value (released by into_handle)
Released(h) ==
    /\ h \in hostfxr.open
    /\ \A i \in Objs : ctx[i].st \in {"live", "busy"} => ctx[i].handle # h

\* unsafe HostfxrContext::from_handle(handle, hostfxr): a context value of
\* the type the caller names around the given handle; no native call
from_handle(h, tag) ==
    /\ Ready
    /\ Released(h)
    /\ \E i \in Objs : ctx[i].st = "none"
    /\ ctx' = [ctx EXCEPT ![NextObj] = HostfxrContext(h, tag)]
    /\ ret' = [NoRet EXCEPT !.op = "from_handle", !.obj = NextObj, !.handle = h]
    /\ UNCHANGED <<hostfxr, written, loaders, held>>

----------------------------------------------------------------------------
(* run_app *)

\* From<i32> that keeps only the hosting layer's success code for a success
AppOrHostingResult_from_decoded(code) == [v |-> IF code > 0 THEN Success ELSE code]

\* From<i32> that keeps the low byte, as a process exit status would
AppOrHostingResult_from_status(code) == [v |-> code % 256]

\* AppOrHostingResult: From<i32>, value(), as_hosting_exit_code()
AppOrHostingResult_from(code) == [v |-> code]
AppOrHostingResult_value(r) == r.v
as_hosting_exit_code(r) == HostingResult_from(r.v)

\* run_app defined in the impl block of every tag
run_app_any_tag(i) ==
    /\ Ready /\ ctx[i].st = "live"
    /\ \E exit \in AppExitCodes \cup {NoCode}, rc2 \in CloseCodes :
         \E rc \in (IF exit = NoCode THEN RunErrorCodes ELSE {exit}) :
           LET h == ctx[i].handle
               d == Drop_drop(hostfxr_run_app(hostfxr, h, exit # NoCode), h, rc2)
           IN  /\ hostfxr' = d.state
               /\ ret' = [NoRet EXCEPT !.op = "run_app", !.obj = i, !.rc = rc,
                                       !.res = [tag |-> "App", code |-> rc,
                                                kind |-> HostingResult_from(rc).tag],
                                       !.exit = exit]
    /\ ctx' = [ctx EXCEPT ![i] = Gone(@)]
    /\ UNCHANGED <<written, loaders, held>>

\* run_app(&self): the context is not consumed by the run
run_app_by_ref(i) ==
    /\ Ready /\ ctx[i].st = "live"
    /\ ctx[i].tag = InitializedForCommandLine
    /\ \E exit \in AppExitCodes \cup {NoCode} :
         \E rc \in (IF exit = NoCode THEN RunErrorCodes ELSE {exit}) :
           /\ hostfxr' = hostfxr_run_app(hostfxr, ctx[i].handle, exit # NoCode)
           /\ ret' = [NoRet EXCEPT !.op = "run_app", !.obj = i, !.rc = rc,
                                   !.res = [tag |-> "App", code |-> rc,
                                            kind |-> HostingResult_from(rc).tag],
                                   !.exit = exit]
    /\ UNCHANGED <<ctx, written, loaders, held>>

\* run_app that releases the context first and runs the app on the closed handle
run_app_close_first(i) ==
    /\ Live(i)
    /\ ctx[i].tag = InitializedForCommandLine
    /\ \E exit \in AppExitCodes \cup {NoCode}, rc2 \in CloseCodes :
         \E rc \in (IF exit = NoCode THEN RunErrorCodes ELSE {exit}) :
           LET h == ctx[i].handle
               d == Drop_drop(hostfxr, h, rc2)
               s == hostfxr_run_app(d.state, h, exit # NoCode)
               r == AppOrHostingResult_from(rc)
           IN  /\ hostfxr' = s
               /\ ret' = [NoRet EXCEPT !.op = "run_app", !.obj = i, !.rc = rc,
                            !.res = [tag |-> "App", code |-> AppOrHostingResult_value(r),
                                     kind |-> as_hosting_exit_code(r).tag],
                            !.hosting = as_hosting_exit_code(r),
                            !.exit = exit,
                            !.calls = <<Logged(d.state, rc2), Logged(s, rc)>>]
    /\ ctx' = [ctx EXCEPT ![i] = Gone(@)]
    /\ UNCHANGED <<written, loaders, held>>

\* HostfxrContext<InitializedForCommandLine>::run_app(self): the native run,
\* then self goes out of scope at the end of the function body (Drop).
\* exit is the code the application exited with, NoCode when the hosting
\* layer did not start it.
run_app(i) ==
    /\ Live(i)
    /\ ctx[i].tag = InitializedForCommandLine
    /\ \E exit \in AppExitCodes \cup {NoCode}, rc2 \in CloseCodes :
         \E rc \in (IF exit = NoCode THEN RunErrorCodes ELSE {exit}) :
           LET h == ctx[i].handle
               s == hostfxr_run_app(hostfxr, h, exit # NoCode)
               r == AppOrHostingResult_from(rc)
               d == Drop_drop(s, h, rc2)
           IN  /\ hostfxr' = d.state
               /\ ret' = [NoRet EXCEPT !.op = "run_app", !.obj = i, !.rc = rc,
                                       !.res = [tag |-> "App", code |-> AppOrHostingResult_value(r),
                                                kind |-> as_hosting_exit_code(r).tag],
                                       !.hosting = as_hosting_exit_code(r),
                                       !.exit = exit,
                                       !.calls = <<Logged(s, rc), Logged(d.state, rc2)>>]
    /\ ctx' = [ctx EXCEPT ![i] = Gone(@)]
    /\ UNCHANGED <<written, loaders, held>>

----------------------------------------------------------------------------
(* Delegates *)

\* mem::transmute of the written pointer
transmute(ptr) == ptr

\* get_runtime_delegate that reads the out-parameter before it looks at the code
get_runtime_delegate_call_read_first(s, h, type, rc) ==
    [state  |-> hostfxr_get_runtime_delegate(s, h, type),
     rc     |-> rc,
     result |-> into_result(HostingResult_from(rc)),
     val    |-> IF get_runtime_delegate_out(type, rc) = Uninit
                THEN Garbage
                ELSE transmute(get_runtime_delegate_out(type, rc))]

\* the body of HostfxrContext::get_runtime_delegate: one native call, `?` on
\* its code, then the written pointer
get_runtime_delegate_call(s, h, type, rc) ==
    LET r == into_result(HostingResult_from(rc))
    IN  [state  |-> hostfxr_get_runtime_delegate(s, h, type),
         rc     |-> rc,
         result |-> r,
         val    |-> IF r.tag = "Ok"
                    THEN transmute(get_runtime_delegate_out(type, rc))
                    ELSE NoStr]

\* HostfxrContext::get_runtime_delegate(&self, type)
get_runtime_delegate(i, type) ==
    /\ Live(i)
    /\ \E rc \in DelegateCodes :
         LET g == get_runtime_delegate_call(hostfxr, ctx[i].handle, type, rc)
         IN  /\ hostfxr' = g.state
             /\ ret' = [NoRet EXCEPT !.op = "get_runtime_delegate", !.obj = i,
                                     !.rc = g.rc, !.res = g.result, !.val = g.val,
                                     !.calls = <<Logged(g.state, g.rc)>>]
    /\ UNCHANGED <<ctx, written, loaders, held>>

get_load_assembly_and_get_function_pointer_delegate(s, h, rc) ==
    get_runtime_delegate_call(s, h, "hdt_load_assembly_and_get_function_pointer", rc)

get_get_function_pointer_delegate(s, h, rc) ==
    get_runtime_delegate_call(s, h, "hdt_get_function_pointer", rc)

\* get_delegate_loader that asks for both delegates before it looks at either
\* result
get_delegate_loader_call_both(s, h, rc1, rc2) ==
    LET a == get_load_assembly_and_get_function_pointer_delegate(s, h, rc1)
        b == get_get_function_pointer_delegate(a.state, h, rc2)
        bad == IF a.result.tag = "Err" THEN a ELSE b
    IN  [state  |-> b.state,
         rc     |-> bad.rc,
         result |-> bad.result,
         loader |-> IF a.result.tag = "Ok" /\ b.result.tag = "Ok"
                    THEN DelegateLoader(a.val, b.val) ELSE NoDelegateLoader,
         calls  |-> <<Logged(a.state, rc1), Logged(b.state, rc2)>>]

\* the body of HostfxrContext::get_delegate_loader: the two delegates in
\* the order of the struct expression, each with `?`
get_delegate_loader_call(s, h, rc1, rc2) ==
    LET a == get_load_assembly_and_get_function_pointer_delegate(s, h, rc1)
        b == get_get_function_pointer_delegate(a.state, h, rc2)
    IN  IF a.result.tag = "Err"
        THEN [state |-> a.state, rc |-> a.rc, result |-> a.result,
              loader |-> NoDelegateLoader, calls |-> <<Logged(a.state, rc1)>>]
        ELSE IF b.result.tag = "Err"
        THEN [state |-> b.state, rc |-> b.rc, result |-> b.result,
              loader |-> NoDelegateLoader,
              calls |-> <<Logged(a.state, rc1), Logged(b.state, rc2)>>]
        ELSE [state |-> b.state, rc |-> b.rc, result |-> b.result,
              loader |-> DelegateLoader(a.val, b.val),
              calls |-> <<Logged(a.state, rc1), Logged(b.state, rc2)>>]

\* HostfxrContext::get_delegate_loader(&self)
get_delegate_loader(i) ==
    /\ Live(i)
    /\ \E rc1 \in DelegateCodes, rc2 \in DelegateCodes :
         LET g == get_delegate_loader_call(hostfxr, ctx[i].handle, rc1, rc2)
         IN  /\ hostfxr' = g.state
             /\ ret' = [NoRet EXCEPT !.op = "get_delegate_loader", !.obj = i,
                                     !.rc = g.rc, !.res = g.result,
                                     !.loader = g.loader, !.calls = g.calls]
    /\ UNCHANGED <<ctx, written, loaders, held>>

----------------------------------------------------------------------------
(* Assembly-scoped delegate loader *)

\* AssemblyDelegateLoader::new(loader, assembly_path)
AssemblyDelegateLoader_new(loader, assembly_path) ==
    [st |-> "made", loader |-> loader, assembly_path |-> assembly_path,
     loaded |-> FALSE]

\* get_delegate_loader_for_assembly that loads the assembly when the loader
\* is made
get_delegate_loader_for_assembly_eager(i) ==
    /\ Live(i)
    /\ loaders[i].st = "none"
    /\ \E rc1 \in DelegateCodes, rc2 \in DelegateCodes :
         LET g == get_delegate_loader_call(hostfxr, ctx[i].handle, rc1, rc2)
         IN  /\ hostfxr' = IF g.result.tag = "Ok"
                           THEN [g.state EXCEPT !.loads[AssemblyPath(i)] = @ + 1]
                           ELSE g.state
             /\ loaders' = IF g.result.tag = "Ok"
                           THEN [loaders EXCEPT ![i] =
                                   [AssemblyDelegateLoader_new(g.loader, AssemblyPath(i))
                                      EXCEPT !.loaded = TRUE]]
                           ELSE loaders
             /\ ret' = [NoRet EXCEPT !.op = "get_delegate_loader_for_assembly",
                                     !.obj = i, !.rc = g.rc, !.res = g.result,
                                     !.loader = g.loader, !.calls = g.calls]
    /\ UNCHANGED <<ctx, written, held>>

\* HostfxrContext::get_delegate_loader_for_assembly(&self, assembly_path):
\* get_delegate_loader().map(|loader| AssemblyDelegateLoader::new(..));
\* the host program keeps one such loader per context
get_delegate_loader_for_assembly(i) ==
    /\ Live(i)
    /\ loaders[i].st = "none"
    /\ \E rc1 \in DelegateCodes, rc2 \in DelegateCodes :
         LET g == get_delegate_loader_call(hostfxr, ctx[i].handle, rc1, rc2)
         IN  /\ hostfxr' = g.state
             /\ loaders' = IF g.result.tag = "Ok"
                           THEN [loaders EXCEPT ![i] =
                                   AssemblyDelegateLoader_new(g.loader, AssemblyPath(i))]
                           ELSE loaders
             /\ ret' = [NoRet EXCEPT !.op = "get_delegate_loader_for_assembly",
                                     !.obj = i, !.rc = g.rc, !.res = g.result,
                                     !.loader = g.loader, !.calls = g.calls]
    /\ UNCHANGED <<ctx, written, held>>

\* get_function that marks the assembly as loaded whatever the first
\* request returned
AssemblyDelegateLoader_get_function_mark_always(l, s, type_name, method_name, delegate_type_name, rc) ==
    LET r == into_result(HostingResult_from(rc))
    IN  [loader |-> [l EXCEPT !.loaded = TRUE],
         state  |-> IF l.loaded
                    THEN get_function_pointer(s, type_name, method_name,
                                              delegate_type_name, rc)
                    ELSE load_assembly_and_get_function_pointer(
                             s, l.assembly_path, type_name, method_name,
                             delegate_type_name, rc),
         rc     |-> rc,
         result |-> r,
         val    |-> IF r.tag = "Ok" THEN function_pointer_out(method_name, rc)
                    ELSE NoStr]

\* the body of AssemblyDelegateLoader::get_function: while the flag is not
\* set the request goes through load_assembly_and_get_function_pointer and
\* a success sets the flag; afterwards requests go through
\* get_function_pointer
AssemblyDelegateLoader_get_function(l, s, type_name, method_name, delegate_type_name, rc) ==
    LET r == into_result(HostingResult_from(rc))
    IN  [loader |-> IF l.loaded THEN l ELSE [l EXCEPT !.loaded = (r.tag = "Ok")],
         state  |-> IF l.loaded
                    THEN get_function_pointer(s, type_name, method_name,
                                              delegate_type_name, rc)
                    ELSE load_assembly_and_get_function_pointer(
                             s, l.assembly_path, type_name, method_name,
                             delegate_type_name, rc),
         rc     |-> rc,
         result |-> r,
         val    |-> IF r.tag = "Ok" THEN function_pointer_out(method_name, rc)
                    ELSE NoStr]

\* AssemblyDelegateLoader::get_function::<F>(type_name, method_name,
\* delegate_type_name)
get_function(i, method_name) ==
    /\ Ready
    /\ loaders[i].st = "made"
    /\ \E rc \in FunctionCodes :
         LET g == AssemblyDelegateLoader_get_function(
                      loaders[i], hostfxr, TypeName, method_name,
                      DelegateTypeName, rc)
         IN  /\ hostfxr' = g.state
             /\ loaders' = [loaders EXCEPT ![i] = g.loader]
             /\ ret' = [NoRet EXCEPT !.op = "get_function", !.obj = i, !.rc = g.rc,
                                     !.res = g.result, !.val = g.val,
                                     !.name = method_name,
                                     !.calls = <<Logged(g.state, g.rc)>>]
    /\ UNCHANGED <<ctx, written, held>>

\* AssemblyDelegateLoader::get_function_with_unmanaged_callers_only(
\* type_name, method_name): the same request without a delegate type name
get_function_with_unmanaged_callers_only(i, method_name) ==
    /\ Ready
    /\ loaders[i].st = "made"
    /\ \E rc \in FunctionCodes :
         LET g == AssemblyDelegateLoader_get_function(
                      loaders[i], hostfxr, TypeName, method_name,
                      UNMANAGED_CALLERS_ONLY_METHOD, rc)
         IN  /\ hostfxr' = g.state
             /\ loaders' = [loaders EXCEPT ![i] = g.loader]
             /\ ret' = [NoRet EXCEPT !.op = "get_function_with_unmanaged_callers_only",
                                     !.obj = i, !.rc = g.rc,
                                     !.res = g.result, !.val = g.val,
                                     !.name = method_name,
                                     !.calls = <<Logged(g.state, g.rc)>>]
    /\ UNCHANGED <<ctx, written, held>>

----------------------------------------------------------------------------
(* Primary and secondary contexts *)

\* is_primary computed by the wrapper: every context it made is primary
is_primary_computed(i) ==
    /\ Live(i)
    /\ \E rc \in IsPrimaryCodes :
         LET r == into_result(HostingResult_from(rc))
         IN  /\ hostfxr' = hostfxr_is_primary(hostfxr, ctx[i].handle)
             /\ ret' = [NoRet EXCEPT !.op = "is_primary", !.obj = i, !.rc = rc,
                                     !.res = r, !.flag = (r.tag = "Ok")]
    /\ UNCHANGED <<ctx, written, loaders, held>>

\* is_primary that answers "secondary" when the query fails
is_primary_default(i) ==
    /\ Live(i)
    /\ \E rc \in IsPrimaryCodes :
         /\ hostfxr' = hostfxr_is_primary(hostfxr, ctx[i].handle)
         /\ ret' = [NoRet EXCEPT !.op = "is_primary", !.obj = i, !.rc = rc,
                                 !.res = HostingResult_from(Success),
                                 !.flag = IF rc >= 0
                                          THEN is_primary_out(hostfxr, ctx[i].handle)
                                          ELSE FALSE]
    /\ UNCHANGED <<ctx, written, loaders, held>>

\* HostfxrContext::is_primary(&self): the answer of the native query, or the
\* error the query reported
is_primary(i) ==
    /\ Live(i)
    /\ \E rc \in IsPrimaryCodes :
         LET r == into_result(HostingResult_from(rc))
         IN  /\ hostfxr' = hostfxr_is_primary(hostfxr, ctx[i].handle)
             /\ ret' = [NoRet EXCEPT !.op = "is_primary", !.obj = i, !.rc = rc,
                                     !.res = r,
                                     !.flag = IF r.tag = "Ok"
                                              THEN is_primary_out(hostfxr, ctx[i].handle)
                                              ELSE FALSE]
    /\ UNCHANGED <<ctx, written, loaders, held>>

----------------------------------------------------------------------------
(* Runtime properties: single values *)

\* HostfxrContext::get_runtime_property_value_ref(&self, name)
get_runtime_property_value_ref(s, h, name) ==
    LET rc  == get_property_rc(s, as_ptr(name))
        out == get_property_out(s, as_ptr(name))
        r   == into_result(HostingResult_from(rc))
    IN  [state  |-> hostfxr_get_runtime_property_value(s, h, as_ptr(name)),
         rc     |-> rc,
         result |-> r,
         val    |-> IF r.tag = "Ok" THEN from_str_ptr(out) ELSE NoStr]

\* the &PdCStr that get_runtime_property_value_ref returns: a view of the
\* native buffer of the property, not a copy of it
BorrowedView(s, h, name, content) ==
    [kind |-> "ref", h |-> h, name |-> name, epoch |-> s.epoch,
     content |-> NoStr, snap |-> content, op |-> "none"]

\* a to_owned that hands back the borrowed view itself
PdCStr_to_owned_alias(view) == view

\* PdCStr::to_owned on a borrowed view: a PdCString with its own copy of the
\* content the view shows at the time of the call
PdCStr_to_owned(view) ==
    [kind |-> "owned", h |-> 0, name |-> view.name, epoch |-> 0,
     content |-> to_owned(view.snap), snap |-> view.snap, op |-> "none"]

\* the unsafe HostfxrContext::get_runtime_property_value_ref(&self, name)
\* called by the host program itself: the borrowed view is the result
get_runtime_property_value_ref_unsafe(i, name) ==
    /\ Live(i)
    /\ LET g == get_runtime_property_value_ref(hostfxr, ctx[i].handle, name)
       IN  /\ hostfxr' = g.state
           /\ ret' = [NoRet EXCEPT !.op = "get_ref", !.obj = i, !.rc = g.rc,
                                   !.res = g.result, !.name = name,
                                   !.val = g.val,
                                   !.kept = IF g.val # NoStr
                                            THEN BorrowedView(g.state, ctx[i].handle,
                                                              name, g.val)
                                            ELSE NoHeld,
                                   !.calls = <<Logged(g.state, g.rc)>>]
    /\ UNCHANGED <<ctx, written, loaders, held>>

\* HostfxrContext::get_runtime_property_value(&self, name): the borrowed
\* result mapped through PdCStr::to_owned
get_runtime_property_value(i, name) ==
    /\ Live(i)
    /\ LET g == get_runtime_property_value_ref(hostfxr, ctx[i].handle, name)
       IN  /\ hostfxr' = g.state
           /\ ret' = [NoRet EXCEPT !.op = "get", !.obj = i, !.rc = g.rc,
                                   !.res = g.result, !.name = name,
                                   !.val = IF g.val # NoStr
                                           THEN to_owned(g.val) ELSE NoStr,
                                   !.kept = IF g.val # NoStr
                                            THEN PdCStr_to_owned(
                                                     BorrowedView(g.state, ctx[i].handle,
                                                                  name, g.val))
                                            ELSE NoHeld,
                                   !.calls = <<Logged(g.state, g.rc)>>]
    /\ UNCHANGED <<ctx, written, loaders, held>>

\* set that hands the native side a null value pointer
set_runtime_property_value_null(i, name, value) ==
    /\ Live(i)
    /\ \E rc \in SetCodes :
         LET r == into_result(HostingResult_from(rc))
         IN  /\ hostfxr' = hostfxr_set_runtime_property_value(
                               hostfxr, ctx[i].handle, as_ptr(name), NullPtr, rc)
             /\ ret' = [NoRet EXCEPT !.op = "set", !.obj = i, !.rc = rc, !.res = r,
                                     !.name = name, !.val = value]
             /\ written' = IF r.tag = "Ok" THEN [written EXCEPT ![name] = value]
                           ELSE written
    /\ UNCHANGED <<ctx, loaders, held>>

\* HostfxrContext::set_runtime_property_value(&self, name, value)
set_runtime_property_value(i, name, value) ==
    /\ Live(i)
    /\ \E rc \in SetCodes :
         LET r == into_result(HostingResult_from(rc))
         IN  /\ hostfxr' = hostfxr_set_runtime_property_value(
                               hostfxr, ctx[i].handle, as_ptr(name), as_ptr(value), rc)
             /\ ret' = [NoRet EXCEPT !.op = "set", !.obj = i, !.rc = rc, !.res = r,
                                     !.name = name, !.val = value,
                                     !.calls = <<Logged(hostfxr', rc)>>]
             /\ written' = IF r.tag = "Ok" THEN [written EXCEPT ![name] = value]
                           ELSE written
    /\ UNCHANGED <<ctx, loaders, held>>

\* remove that hands the native side an empty string instead of null
remove_runtime_property_value_empty(i, name) ==
    /\ Live(i)
    /\ \E rc \in SetCodes :
         LET r == into_result(HostingResult_from(rc))
         IN  /\ hostfxr' = hostfxr_set_runtime_property_value(
                               hostfxr, ctx[i].handle, as_ptr(name), as_ptr(<< >>), rc)
             /\ ret' = [NoRet EXCEPT !.op = "remove", !.obj = i, !.rc = rc, !.res = r,
                                     !.name = name]
             /\ written' = IF r.tag = "Ok" THEN [written EXCEPT ![name] = Removed]
                           ELSE written
    /\ UNCHANGED <<ctx, loaders, held>>

\* HostfxrContext::remove_runtime_property_value(&self, name)
remove_runtime_property_value(i, name) ==
    /\ Live(i)
    /\ \E rc \in SetCodes :
         LET r == into_result(HostingResult_from(rc))
         IN  /\ hostfxr' = hostfxr_set_runtime_property_value(
                               hostfxr, ctx[i].handle, as_ptr(name), NullPtr, rc)
             /\ ret' = [NoRet EXCEPT !.op = "remove", !.obj = i, !.rc = rc, !.res = r,
                                     !.name = name,
                                     !.calls = <<Logged(hostfxr', rc)>>]
             /\ written' = IF r.tag = "Ok" THEN [written EXCEPT ![name] = Removed]
                           ELSE written
    /\ UNCHANGED <<ctx, loaders, held>>

----------------------------------------------------------------------------
(* Runtime properties: the two-phase get-all *)

PresentKeys(s) == {n \in DOMAIN s.props : s.props[n] # NullPtr}

RECURSIVE SortKeys(_)
SortKeys(S) ==
    IF S = {} THEN << >>
    ELSE LET m == CHOOSE x \in S : \A y \in S : x[1] <= y[1]
         IN  <<m>> \o SortKeys(S \ {m})

Reverse(q) == [k \in 1..Len(q) |-> q[Len(q) + 1 - k]]

\* the order in which the native side enumerates its properties
EnumKeys(s, rev) ==
    IF rev THEN Reverse(SortKeys(PresentKeys(s))) ELSE SortKeys(PresentKeys(s))

\* hostfxr_get_runtime_properties(handle, &count, keys, values): the count is
\* always set to the number of properties; the buffers are filled only when
\* they are non-null and the count passed in is large enough
Phase1Codes == {HostApiBufferTooSmall, Success, HostInvalidState}

hostfxr_get_runtime_properties(s, h, keys, values) ==
    Called(s, "hostfxr_get_runtime_properties", h, keys, values)

Phase2Codes(s, cap) ==
    IF cap < Cardinality(PresentKeys(s)) THEN {HostApiBufferTooSmall}
    ELSE {Success, HostInvalidState}

\* the buffer of capacity cap after the native call: slots the call did not
\* fill stay uninitialised
Filled(cap, q, rc) ==
    [k \in 1..cap |-> IF rc = Success /\ k <= Len(q) THEN q[k] ELSE Uninit]

\* a match without the BufferTooSmall arm: only a success goes on
first_call_match_strict(r) == IF r.tag = "Ok" THEN "continue" ELSE "return"

\* the match on the result of the first call, lines 188-191:
\* Ok(_) | Err(HostApiBufferTooSmall) => {}, Err(e) => return Err(e)
first_call_match(r) ==
    IF r.tag = "Ok" \/ r.kind = "HostApiBufferTooSmall" THEN "continue" ELSE "return"

\* get_runtime_properties_ref, lines 176-194: the call with null buffers,
\* for the code rc the native side returns
get_runtime_properties_ref_first_call_with(i, rc) ==
    /\ Live(i)
    /\ LET r == into_result(HostingResult_from(rc))
       IN  /\ hostfxr' = hostfxr_get_runtime_properties(
                             hostfxr, ctx[i].handle, NullPtr, NullPtr)
           /\ IF first_call_match(r) = "continue"
              THEN /\ ctx' = [ctx EXCEPT ![i].st = "busy",
                                         ![i].count = Cardinality(PresentKeys(hostfxr))]
                   /\ ret' = ret
              ELSE /\ ctx' = ctx
                   /\ ret' = [NoRet EXCEPT !.op = "get_all", !.obj = i, !.rc = rc,
                                           !.res = r,
                                           !.calls = <<Logged(hostfxr', rc)>>]
    /\ UNCHANGED <<written, loaders, held>>

get_runtime_properties_ref_first_call(i) ==
    \E rc \in Phase1Codes : get_runtime_properties_ref_first_call_with(i, rc)

\* the value vector built from the key buffer
collect_properties_keys_twice(count, cap, keys, values) ==
    [keys |-> [k \in 1..count |-> IF k <= cap THEN from_str_ptr(keys[k]) ELSE Garbage],
     vals |-> [k \in 1..count |-> IF k <= cap THEN from_str_ptr(keys[k]) ELSE Garbage],
     ub   |-> \/ count > cap
              \/ \E k \in 1..count : k <= cap /\ keys[k] = Uninit]

\* set_len with the count of the first call (the capacity) instead of the
\* count the second call reported
collect_properties_stale(count, cap, keys, values) ==
    [keys |-> [k \in 1..cap |-> from_str_ptr(keys[k])],
     vals |-> [k \in 1..cap |-> from_str_ptr(values[k])],
     ub   |-> \E k \in 1..cap : keys[k] = Uninit \/ values[k] = Uninit]

\* lines 207-219: set_len(count) on both vectors, then every element read
\* through PdCStr::from_str_ptr.  cap is the capacity the vectors were
\* allocated with, count the count the second native call left.
collect_properties(count, cap, keys, values) ==
    [keys |-> [k \in 1..count |-> IF k <= cap THEN from_str_ptr(keys[k]) ELSE Garbage],
     vals |-> [k \in 1..count |-> IF k <= cap THEN from_str_ptr(values[k]) ELSE Garbage],
     ub   |-> \/ count > cap
              \/ \E k \in 1..count : k <= cap /\ (keys[k] = Uninit \/ values[k] = Uninit)]

\* get_runtime_properties_owned: both vectors mapped through to_owned
get_runtime_properties_owned(p) ==
    [keys |-> [k \in 1..Len(p.keys) |-> to_owned(p.keys[k])],
     vals |-> [k \in 1..Len(p.vals) |-> to_owned(p.vals[k])],
     ub   |-> p.ub]

\* a second call that allocates again and asks a third time when the buffers
\* were too small
get_runtime_properties_ref_second_call_retry(i) ==
    /\ Ready
    /\ ctx[i].st = "busy"
    /\ \E rc \in Phase2Codes(hostfxr, ctx[i].count), rev \in BOOLEAN :
         LET cap    == IF rc = HostApiBufferTooSmall
                       THEN Cardinality(PresentKeys(hostfxr)) ELSE ctx[i].count
             rc2    == IF rc = HostApiBufferTooSmall THEN Success ELSE rc
             q      == EnumKeys(hostfxr, rev)
             count  == IF rc2 = HostInvalidState THEN cap ELSE Len(q)
             keys   == Filled(cap, q, rc2)
             values == Filled(cap, [k \in 1..Len(q) |-> hostfxr.props[q[k]]], rc2)
             r      == into_result(HostingResult_from(rc2))
             p      == get_runtime_properties_owned(
                           collect_properties(count, cap, keys, values))
             s1     == hostfxr_get_runtime_properties(
                           hostfxr, ctx[i].handle, <<ctx[i].count>>, <<ctx[i].count>>)
             s2     == hostfxr_get_runtime_properties(s1, ctx[i].handle, <<cap>>, <<cap>>)
         IN  /\ hostfxr' = IF rc = HostApiBufferTooSmall THEN s2 ELSE s1
             /\ ret' = IF r.tag = "Ok"
                       THEN [NoRet EXCEPT !.op = "get_all", !.obj = i, !.rc = rc2,
                                          !.res = r, !.keys = p.keys, !.vals = p.vals,
                                          !.cap = cap, !.ub = p.ub,
                                          !.calls = IF rc = HostApiBufferTooSmall
                                                    THEN <<Logged(s1, rc), Logged(s2, rc2)>>
                                                    ELSE <<Logged(s1, rc)>>]
                       ELSE [NoRet EXCEPT !.op = "get_all", !.obj = i, !.rc = rc2,
                                          !.res = r, !.cap = cap,
                                          !.calls = <<Logged(s1, rc)>>]
    /\ ctx' = [ctx EXCEPT ![i].st = "live", ![i].count = 0]
    /\ UNCHANGED <<written, loaders, held>>

\* get_runtime_properties_ref, lines 193-219: the call with the allocated
\* buffers and the construction of the result
get_runtime_properties_ref_second_call(i) ==
    /\ Ready
    /\ ctx[i].st = "busy"
    /\ \E rc \in Phase2Codes(hostfxr, ctx[i].count), rev \in BOOLEAN :
         LET cap    == ctx[i].count
             q      == EnumKeys(hostfxr, rev)
             count  == IF rc = HostInvalidState THEN cap ELSE Len(q)
             keys   == Filled(cap, q, rc)
             values == Filled(cap, [k \in 1..Len(q) |-> hostfxr.props[q[k]]], rc)
             r      == into_result(HostingResult_from(rc))
             p      == get_runtime_properties_owned(
                           collect_properties(count, cap, keys, values))
         IN  /\ hostfxr' = hostfxr_get_runtime_properties(
                               hostfxr, ctx[i].handle, <<cap>>, <<cap>>)
             /\ ret' = IF r.tag = "Ok"
                       THEN [NoRet EXCEPT !.op = "get_all", !.obj = i, !.rc = rc,
                                          !.res = r, !.keys = p.keys, !.vals = p.vals,
                                          !.cap = cap, !.ub = p.ub,
                                          !.calls = <<Logged(hostfxr', rc)>>]
                       ELSE [NoRet EXCEPT !.op = "get_all", !.obj = i, !.rc = rc,
                                          !.res = r, !.cap = cap,
                                          !.calls = <<Logged(hostfxr', rc)>>]
    /\ ctx' = [ctx EXCEPT ![i].st = "live", ![i].count = 0]
    /\ UNCHANGED <<written, loaders, held>>

----------------------------------------------------------------------------
(* Platform strings: construction from text, from an OsStr and from code    *)
(* units, and strict conversion back to text.  A text is a sequence of      *)
(* chars (Unicode scalar values); a platform string is a sequence of code   *)
(* units, 16 bit wide on Windows and 8 bit wide elsewhere.                  *)

MaxTextLen == 2

\* nul, 'A', and one char for each longer UTF-8 form (2, 3 and 4 bytes; the
\* last one is a surrogate pair in UTF-16)
Chars == {NUL, 65, 233, 8364, 128512}

\* code units: nul, 'A', and units that only make sense inside a sequence
\* (a UTF-8 lead and continuation byte, a high and a low surrogate)
PdUChars(windows) == IF windows THEN {NUL, 65, 55357, 56832} ELSE {NUL, 65, 195, 169}

Texts == UNION {[1..n -> Chars] : n \in 0..MaxTextLen}
Vecs(windows) == UNION {[1..n -> PdUChars(windows)] : n \in 0..MaxTextLen}

\* the UTF-8 bytes of a char
encode_utf8(c) ==
    IF c < 128 THEN <<c>>
    ELSE IF c < 2048 THEN <<192 + c \div 64, 128 + (c % 64)>>
    ELSE IF c < 65536
    THEN <<224 + c \div 4096, 128 + ((c \div 64) % 64), 128 + (c % 64)>>
    ELSE <<240 + c \div 262144, 128 + ((c \div 4096) % 64),
           128 + ((c \div 64) % 64), 128 + (c % 64)>>

\* the UTF-16 units of a char
encode_utf16(c) ==
    IF c < 65536 THEN <<c>>
    ELSE <<55296 + (c - 65536) \div 1024, 56320 + ((c - 65536) % 1024)>>

\* the code units of a text on the platform
RECURSIVE encode(_, _)
encode(windows, s) ==
    IF s = << >> THEN << >>
    ELSE (IF windows THEN encode_utf16(Head(s)) ELSE encode_utf8(Head(s)))
            \o encode(windows, Tail(s))

\* the result of decoding code units that are not a text
Invalid == <<-7>>

\* strict UTF-8 decoding
RECURSIVE from_utf8(_)
from_utf8(v) ==
    IF v = << >> THEN << >>
    ELSE LET b == v[1]
             n == IF b < 128 THEN 1
                  ELSE IF b >= 194 /\ b <= 223 THEN 2
                  ELSE IF b >= 224 /\ b <= 239 THEN 3
                  ELSE IF b >= 240 /\ b <= 244 THEN 4
                  ELSE 0
             c == IF n = 1 THEN b
                  ELSE IF n = 2 THEN (b - 192) * 64 + (v[2] - 128)
                  ELSE IF n = 3
                  THEN (b - 224) * 4096 + (v[2] - 128) * 64 + (v[3] - 128)
                  ELSE (b - 240) * 262144 + (v[2] - 128) * 4096
                          + (v[3] - 128) * 64 + (v[4] - 128)
             rest == from_utf8(SubSeq(v, n + 1, Len(v)))
         IN  IF \/ n = 0
                \/ Len(v) < n
                \/ \E k \in 2..n : v[k] < 128 \/ v[k] > 191
                \/ (n = 3 /\ c < 2048)
                \/ (n = 4 /\ c < 65536)
                \/ (c >= 55296 /\ c <= 57343)
                \/ c > 1114111
             THEN Invalid
             ELSE IF rest = Invalid THEN Invalid ELSE <<c>> \o rest

\* strict UTF-16 decoding
RECURSIVE from_utf16(_)
from_utf16(v) ==
    IF v = << >> THEN << >>
    ELSE LET u == v[1]
         IN  IF u < 55296 \/ u > 57343
             THEN LET rest == from_utf16(Tail(v))
                  IN  IF rest = Invalid THEN Invalid ELSE <<u>> \o rest
             ELSE IF u <= 56319 /\ Len(v) >= 2 /\ v[2] >= 56320 /\ v[2] <= 57343
             THEN LET rest == from_utf16(SubSeq(v, 3, Len(v)))
                  IN  IF rest = Invalid THEN Invalid
                      ELSE <<65536 + (u - 55296) * 1024 + (v[2] - 56320)>> \o rest
             ELSE Invalid

NoNul(v) == \A k \in 1..Len(v) : v[k] # NUL

\* the index of the first nul of a sequence that has one
NulPosition(v) == CHOOSE k \in 1..Len(v) : v[k] = NUL /\ \A j \in 1..(k - 1) : v[j] # NUL

StrOk == [tag |-> "Ok", code |-> NoCode, kind |-> "Ok"]
ContainsNul(pos) == [tag |-> "Err", code |-> pos, kind |-> "ContainsNul"]
ToStringError == [tag |-> "Err", code |-> NoCode, kind |-> "ToStringError"]

\* PdCStringInner::from_vec: the units with a nul appended, unless one of
\* them is nul
PdCStringInner_from_vec(vec) ==
    IF NoNul(vec)
    THEN [result |-> StrOk, val |-> Append(vec, NUL)]
    ELSE [result |-> ContainsNul(NulPosition(vec)), val |-> NoStr]

PdCStringInner_from_str(windows, s) == PdCStringInner_from_vec(encode(windows, s))

\* an OsStr is held as its units (as_bytes, encode_wide)
PdCStringInner_from_os_str(os) == PdCStringInner_from_vec(os)

\* PdCStrInner::to_string: strict decoding of the units before the nul
PdCStrInner_to_string(windows, p) ==
    LET u == SubSeq(p, 1, Len(p) - 1)
        t == IF windows THEN from_utf16(u) ELSE from_utf8(u)
    IN  IF t = Invalid
        THEN [result |-> ToStringError, text |-> NoStr]
        ELSE [result |-> StrOk, text |-> t]

\* from_str that stores one unit per char
PdCString_from_str_per_char(windows, s) ==
    PdCStringInner_from_vec([k \in 1..Len(s) |-> s[k] % (IF windows THEN 65536 ELSE 256)])

\* PdCString::from_str, TryFrom<&str>
PdCString_from_str(windows, s) == PdCStringInner_from_str(windows, s)

\* PdCString::from_os_str
PdCString_from_os_str(os) == PdCStringInner_from_os_str(os)

\* from_vec that appends the nul without looking at the units
PdCString_from_vec_unchecked(vec) == [result |-> StrOk, val |-> Append(vec, NUL)]

\* PdCString::from_vec, TryFrom<Vec<PdUChar>>
PdCString_from_vec(vec) == PdCStringInner_from_vec(vec)

\* PdCStr::to_string
PdCStr_to_string(windows, p) == PdCStrInner_to_string(windows, p)

Constructors == {"from_str", "from_os_str", "from_vec"}

\* the host program makes a platform string from a text
from_str(windows, s) ==
    /\ Ready
    /\ LET made == PdCString_from_str(windows, s)
       IN  ret' = [NoRet EXCEPT !.op = "from_str", !.flag = windows, !.name = s,
                               !.res = made.result, !.val = made.val]
    /\ UNCHANGED <<ctx, hostfxr, written, loaders, held>>

\* ... from an OsStr
from_os_str(windows, os) ==
    /\ Ready
    /\ LET made == PdCString_from_os_str(os)
       IN  ret' = [NoRet EXCEPT !.op = "from_os_str", !.flag = windows, !.name = os,
                               !.res = made.result, !.val = made.val]
    /\ UNCHANGED <<ctx, hostfxr, written, loaders, held>>

\* ... from a vector of code units
from_vec(windows, vec) ==
    /\ Ready
    /\ LET made == PdCString_from_vec(vec)
       IN  ret' = [NoRet EXCEPT !.op = "from_vec", !.flag = windows, !.name = vec,
                               !.res = made.result, !.val = made.val]
    /\ UNCHANGED <<ctx, hostfxr, written, loaders, held>>

\* the host program converts the string it has just made back to text
to_string ==
    /\ ret.op \in Constructors
    /\ ret.res.tag = "Ok"
    /\ LET t == PdCStr_to_string(ret.flag, ret.val)
       IN  ret' = [ret EXCEPT !.op = "to_string", !.from = ret.op,
                              !.res = t.result, !.text = t.text]
    /\ UNCHANGED <<ctx, hostfxr, written, loaders, held>>

----------------------------------------------------------------------------
(* The host program takes the value the last call returned (unwrap, assert, *)
(* let _ = ...); its next statement starts from there.                      *)

take_result ==
    /\ ~Ready
    /\ ret' = NoRet
    /\ hostfxr' = [hostfxr EXCEPT !.last = NoCall]
    /\ UNCHANGED <<ctx, written, loaders, held>>

\* the host program stores the property value it was just given and goes on;
\* it keeps one value, and a borrowed view only of a buffer generation the
\* model can tell from every later one
keep ==
    /\ ret.op \in {"get", "get_ref"}
    /\ ret.kept.kind # "none"
    /\ held = NoHeld
    /\ ret.kept.kind = "ref" => ret.kept.epoch < MaxEpoch
    /\ held' = [ret.kept EXCEPT !.op = ret.op]
    /\ ret' = NoRet
    /\ hostfxr' = [hostfxr EXCEPT !.last = NoCall]
    /\ UNCHANGED <<ctx, written, loaders>>

----------------------------------------------------------------------------
(* Specification *)

Next ==
    \/ initialize_for_runtime_config
    \/ initialize_for_dotnet_command_line
    \/ \E i \in Objs : close(i)
    \/ \E i \in Objs : drop(i)
    \/ \E i \in Objs : into_handle(i)
    \/ \E i \in Objs : run_app(i)
    \/ \E i \in Objs, t \in DelegateTypes : get_runtime_delegate(i, t)
    \/ \E i \in Objs : is_primary(i)
    \/ \E i \in Objs, n \in AllNames : get_runtime_property_value(i, n)
    \/ \E i \in Objs, n \in Names, v \in Values : set_runtime_property_value(i, n, v)
    \/ \E i \in Objs, n \in Names : remove_runtime_property_value(i, n)
    \/ \E i \in Objs : get_runtime_properties_ref_first_call(i)
    \/ \E i \in Objs : get_runtime_properties_ref_second_call(i)
    \/ take_result

Spec == Init /\ [][Next]_vars

\* the host program that keeps a property value across later operations
NextKeep ==
    \/ initialize_for_dotnet_command_line
    \/ \E i \in Objs : close(i)
    \/ \E i \in Objs : drop(i)
    \/ \E i \in Objs : run_app(i)
    \/ \E i \in Objs, n \in AllNames : get_runtime_property_value(i, n)
    \/ \E i \in Objs, n \in AllNames : get_runtime_property_value_ref_unsafe(i, n)
    \/ \E i \in Objs, n \in Names, v \in Values : set_runtime_property_value(i, n, v)
    \/ \E i \in Objs, n \in Names : remove_runtime_property_value(i, n)
    \/ keep
    \/ take_result

SpecKeep == Init /\ [][NextKeep]_vars

\* a host program that takes raw handles out of its contexts and rebuilds
\* contexts from them; its contexts are all initialised for a runtime config
NextHandle ==
    \/ initialize_for_runtime_config
    \/ \E i \in Objs : close(i)
    \/ \E i \in Objs : drop(i)
    \/ \E i \in Objs : into_handle(i)
    \/ \E i \in Objs : handle(i)
    \/ \E h \in Handles : from_handle(h, InitializedForRuntimeConfig)
    \/ \E i \in Objs, n \in AllNames : get_runtime_property_value(i, n)
    \/ \E i \in Objs, n \in Names, v \in Values : set_runtime_property_value(i, n, v)
    \/ take_result

SpecHandle == Init /\ [][NextHandle]_vars

\* a host program that works with delegate loaders only
NextLoader ==
    \/ initialize_for_runtime_config
    \/ initialize_for_dotnet_command_line
    \/ \E i \in Objs : close(i)
    \/ \E i \in Objs : get_delegate_loader(i)
    \/ \E i \in Objs : get_delegate_loader_for_assembly(i)
    \/ \E i \in Objs, m \in MethodNames : get_function(i, m)
    \/ \E i \in Objs, m \in MethodNames : get_function_with_unmanaged_callers_only(i, m)
    \/ take_result

SpecLoader == Init /\ [][NextLoader]_vars

\* a host program that works with platform strings only
NextStr ==
    \/ \E windows \in BOOLEAN, s \in Texts : from_str(windows, s)
    \/ \E windows \in BOOLEAN : \E os \in Vecs(windows) : from_os_str(windows, os)
    \/ \E windows \in BOOLEAN : \E vec \in Vecs(windows) : from_vec(windows, vec)
    \/ to_string
    \/ take_result

SpecStr == Init /\ [][NextStr]_vars

----------------------------------------------------------------------------
(* Properties of the context life cycle *)

\* the handle of the context the last operation was called on
RetHandle == ctx[ret.obj].handle

CloseCallOn(h) == <<"hostfxr_close", h, NullPtr, NullPtr>>

\* C1: an explicit close() invokes the native close exactly once for the
\* handle (no second close from the automatic release path, then or later)
\* and returns the decoding of the code that call returned: Ok for a
\* success code, Err carrying that code for an error code.
C1_CloseOnceAndReturnsResult ==
    /\ \A h \in Handles : hostfxr.closeCalls[h] <= 1
    /\ ret.op = "close" =>
          /\ hostfxr.closeCalls[RetHandle] = 1
          /\ hostfxr.last = CloseCallOn(RetHandle)
          /\ ret.rc >= 0 => (ret.res.tag = "Ok" /\ ret.res.code = ret.rc)
          /\ ret.rc < 0  => (ret.res.tag = "Err" /\ ret.res.code = ret.rc)

\* close() has returned the error the native close reported
C1_Witness ==
    /\ ret.op = "close"
    /\ ret.rc = InvalidArgFailure
    /\ ret.res.tag = "Err"
    /\ hostfxr.closeCalls[RetHandle] = 1

\* C2: when a context goes out of scope without close(), the automatic
\* release invokes the native close exactly once and discards its code,
\* error or not: nothing but unit comes back, no error and no panic.
C2_DropClosesOnceAndDiscards ==
    ret.op = "drop" =>
        /\ hostfxr.closeCalls[RetHandle] = 1
        /\ hostfxr.last = CloseCallOn(RetHandle)
        /\ RetHandle \notin hostfxr.open
        /\ ret.res = UnitResult

\* a context was dropped and the native close reported an error
C2_Witness ==
    /\ ret.op = "drop"
    /\ ret.rc = InvalidArgFailure
    /\ ret.res = UnitResult
    /\ hostfxr.closeCalls[RetHandle] = 1

\* C3: with the safe operations only, no native entry point is ever called
\* with a handle that is not open: no call on a handle follows its close.
C3_NoUseAfterClose ==
    /\ ~hostfxr.misuse
    /\ \A i \in Objs : ctx[i].st \in {"live", "busy"} => ctx[i].handle \in hostfxr.open

\* one context has been closed and native calls went on being made
\* afterwards, on the handle of another context
C3_Witness ==
    /\ \E h \in Handles : hostfxr.closeCalls[h] = 1 /\ h \notin hostfxr.open
    /\ hostfxr.last[1] = "hostfxr_get_runtime_property_value"
    /\ hostfxr.last[2] \in hostfxr.open

\* every property and delegate operation can be called on context i
PropertyAndDelegateOpsEnabled(i) ==
    /\ \A n \in AllNames : ENABLED get_runtime_property_value(i, n)
    /\ \A n \in Names : \A v \in Values : ENABLED set_runtime_property_value(i, n, v)
    /\ \A n \in Names : ENABLED remove_runtime_property_value(i, n)
    /\ ENABLED get_runtime_properties_ref_first_call(i)
    /\ \A t \in DelegateTypes : ENABLED get_runtime_delegate(i, t)

\* C4: the native run app is only ever invoked on the handle of a context
\* tagged InitializedForCommandLine, never on one that came from
\* initialize_for_runtime_config; the property and delegate operations are
\* callable on a context of either tag.
C4_RunAppOnlyForCommandLine ==
    /\ [][\A h \in Handles :
            hostfxr'.runCalls[h] > hostfxr.runCalls[h] =>
                \E i \in Objs : /\ ctx[i].st = "live"
                                /\ ctx[i].handle = h
                                /\ ctx[i].tag = InitializedForCommandLine]_vars
    /\ [](\A i \in Objs :
            /\ ENABLED run_app(i) => ctx[i].tag = InitializedForCommandLine
            /\ Live(i) => PropertyAndDelegateOpsEnabled(i))

\* a property was set through a runtime-config context while a command-line
\* context had its app run
C4_Witness ==
    /\ ret.op = "set" /\ ret.res.tag = "Ok"
    /\ ctx[ret.obj].tag = InitializedForRuntimeConfig
    /\ \E h \in Handles : hostfxr.runCalls[h] = 1

\* C5: native run app is invoked at most once per command-line context; the
\* run consumes the context, which stays consumed, so the caller can issue no
\* further operation on it.
C5_RunAppAtMostOnceAndConsumes ==
    /\ [](\A h \in Handles : hostfxr.runCalls[h] <= 1)
    /\ [](\A i \in Objs :
            (ctx[i].st # "none" /\ hostfxr.runCalls[ctx[i].handle] >= 1) =>
                /\ ctx[i].st = "gone"
                /\ \A n \in AllNames : ~ENABLED get_runtime_property_value(i, n)
                /\ \A n \in Names, v \in Values : ~ENABLED set_runtime_property_value(i, n, v)
                /\ \A n \in Names : ~ENABLED remove_runtime_property_value(i, n)
                /\ ~ENABLED get_runtime_properties_ref_first_call(i)
                /\ ~ENABLED get_runtime_properties_ref_second_call(i)
                /\ \A t \in DelegateTypes : ~ENABLED get_runtime_delegate(i, t)
                /\ ~ENABLED close(i)
                /\ ~ENABLED run_app(i))
    /\ [][\A i \in Objs : ctx[i].st = "gone" => ctx'[i].st = "gone"]_vars

\* run_app has returned for a context and operations went on afterwards
C5_Witness ==
    /\ \E i \in Objs : ctx[i].st = "gone" /\ hostfxr.runCalls[ctx[i].handle] = 1
    /\ ret.op = "get"

----------------------------------------------------------------------------
(* Properties of run_app's result *)

\* C6 (as stated): when the app exits with a code that matches no defined
\* hosting error code, run_app's value is that exit code and its decoding as
\* a hosting result is not an error.
C6_Original_UndefinedCodeIsNotError ==
    (ret.op = "run_app" /\ ret.exit # NoCode /\ ret.exit \notin KnownErrorCodes) =>
        /\ ret.res.code = ret.exit
        /\ ret.res.kind # "Err"

\* C6 (amended): when the app exits with a non-negative code (such as 42),
\* run_app's value is that exit code and its decoding as a hosting result
\* is not an error; for every exit code the value is the exit code.
C6_NonNegativeExitIsNotError ==
    (ret.op = "run_app" /\ ret.exit # NoCode) =>
        /\ ret.res.code = ret.exit
        /\ ret.exit >= 0 => ret.res.kind = "Ok"

\* the app exited with 42 and run_app returned
C6_Witness ==
    /\ ret.op = "run_app"
    /\ ret.exit = 42
    /\ ret.res.code = 42
    /\ ret.res.kind = "Ok"

----------------------------------------------------------------------------
(* Properties of the runtime property protocol *)

\* C7: after set(name, value) succeeded, with no later set or remove of that
\* name, get(name) returns exactly value.
C7_GetReturnsLastSet ==
    (ret.op = "get" /\ ret.name \in Names /\ written[ret.name] \in Values) =>
        /\ ret.res.tag = "Ok"
        /\ ret.val = written[ret.name]

\* a get of a name whose last write was a set of a non-empty value
C7_Witness ==
    /\ ret.op = "get"
    /\ ret.name \in Names
    /\ written[ret.name] \in Values
    /\ Len(written[ret.name]) > 0
    /\ ret.val = written[ret.name]

\* C8: remove(name) is the native set-property call with a null value
\* pointer, and after it succeeded get(name) returns the "not found"
\* hosting error and no value.
C8_RemoveIsSetNullThenNotFound ==
    /\ ret.op = "remove" =>
          hostfxr.last = <<"hostfxr_set_runtime_property_value", RetHandle,
                           as_ptr(ret.name), NullPtr>>
    /\ (ret.op = "get" /\ ret.name \in Names /\ written[ret.name] = Removed) =>
          /\ ret.res.tag = "Err"
          /\ ret.res.kind = "HostPropertyNotFound"
          /\ ret.val = NoStr

\* a get of a name whose last write was a successful remove
C8_Witness ==
    /\ ret.op = "get"
    /\ ret.name \in Names
    /\ written[ret.name] = Removed
    /\ ret.res.kind = "HostPropertyNotFound"

\* the indices at which name n occurs among the returned keys
KeyIndices(n) == {k \in 1..Len(ret.keys) : ret.keys[k] = n}

\* C9: a successful get-all returns as many values as keys, and every name
\* whose last write was a set occurs exactly once among the keys, with its
\* last-set value at the same index.
C9_GetAllMatchesWrites ==
    (ret.op = "get_all" /\ ret.res.tag = "Ok") =>
        /\ Len(ret.keys) = Len(ret.vals)
        /\ \A n \in Names :
              written[n] \in Values =>
                  /\ Cardinality(KeyIndices(n)) = 1
                  /\ \A k \in KeyIndices(n) : ret.vals[k] = written[n]

\* a get-all that returned a written name next to the runtime's own property
C9_Witness ==
    /\ ret.op = "get_all" /\ ret.res.tag = "Ok"
    /\ Len(ret.keys) >= 2
    /\ \E n \in Names : written[n] \in Values /\ Len(written[n]) > 0
                        /\ KeyIndices(n) # {}

\* C10: when the property set shrank between the two native calls (the first
\* reported n, the second succeeded and reported m < n), the result has
\* exactly m keys and m values, each pair an entry the second call filled
\* in; the stale n is not the result size and no slot beyond m is read.
C10_ShrinkUsesSecondCount ==
    (/\ ret.op = "get_all" /\ ret.res.tag = "Ok"
     /\ ret.cap > Cardinality(PresentKeys(hostfxr))) =>
        /\ Len(ret.keys) = Cardinality(PresentKeys(hostfxr))
        /\ Len(ret.vals) = Cardinality(PresentKeys(hostfxr))
        /\ ~ret.ub
        /\ \A k \in 1..Len(ret.keys) :
              /\ as_ptr(ret.keys[k]) \in PresentKeys(hostfxr)
              /\ hostfxr.props[as_ptr(ret.keys[k])] = as_ptr(ret.vals[k])

\* a get-all whose first call reported more properties than the second
C10_Witness ==
    /\ ret.op = "get_all" /\ ret.res.tag = "Ok"
    /\ ret.cap > Len(ret.keys)
    /\ Len(ret.keys) = Cardinality(PresentKeys(hostfxr))

----------------------------------------------------------------------------
(* Properties of primary and secondary contexts *)

\* the first handle the library gave out in the process
FirstHandle == 1

\* C11: the first context initialized in a fresh process reports
\* is_primary() = true, whichever initializer made it; a context made by a
\* later initialize_for_runtime_config, while the first context is still open
\* or after the first has run its app, reports is_primary() = false.
C11_FirstIsPrimaryLaterIsSecondary ==
    (ret.op = "is_primary" /\ ret.res.tag = "Ok") =>
        /\ RetHandle = FirstHandle => ret.flag
        /\ ( /\ RetHandle > FirstHandle
             /\ ctx[ret.obj].tag = InitializedForRuntimeConfig
             /\ (FirstHandle \in hostfxr.open \/ FirstHandle \in hostfxr.ranApp) )
           => ~ret.flag

C11_Witness ==
    /\ ret.op = "is_primary" /\ ret.res.tag = "Ok" /\ ~ret.flag
    /\ RetHandle > FirstHandle
    /\ ctx[ret.obj].tag = InitializedForRuntimeConfig
    /\ FirstHandle \in hostfxr.ranApp
    /\ FirstHandle \notin hostfxr.open

----------------------------------------------------------------------------
(* Properties of the delegate loaders *)

GetFunctionOps == {"get_function", "get_function_with_unmanaged_callers_only"}

\* the step is a get_function request on the loader in slot i
GetFunctionStep(i) == ret'.op \in GetFunctionOps /\ ret'.obj = i /\ ret.op = "none"

\* C12: making an assembly-scoped loader loads no assembly; the first
\* get_function request that succeeds loads the assembly, once; every later
\* request, also one for another method, loads nothing more.
C12_AssemblyLoadedOnceOnFirstSuccess ==
    [][\A i \in Objs :
         LET p == AssemblyPath(i)
         IN  /\ hostfxr'.loads[p] <= 1
             /\ (loaders[i].st = "none" /\ loaders'[i].st = "made")
                  => hostfxr'.loads = hostfxr.loads /\ hostfxr'.loads[p] = 0
             /\ GetFunctionStep(i) =>
                  IF loaders[i].loaded
                  THEN /\ hostfxr'.loads = hostfxr.loads
                       /\ hostfxr'.last[1] = "get_function_pointer"
                  ELSE IF ret'.res.tag = "Ok"
                  THEN /\ hostfxr'.loads = [hostfxr.loads EXCEPT ![p] = 1]
                       /\ hostfxr'.last[1] = "load_assembly_and_get_function_pointer"
                  ELSE hostfxr'.loads = hostfxr.loads
      ]_vars

C12_Witness ==
    /\ ret.op = "get_function" /\ ret.res.tag = "Ok" /\ ret.name = <<32>>
    /\ hostfxr.last[1] = "get_function_pointer"
    /\ hostfxr.loads[AssemblyPath(ret.obj)] = 1

\* the call get_runtime_delegate makes on handle h for a delegate type
DelegateCallOn(h, type) == <<"hostfxr_get_runtime_delegate", h, type, NullPtr>>

\* C18: get_delegate_loader asks for load_assembly_and_get_function_pointer
\* first and for get_function_pointer second, each with one
\* get_runtime_delegate call; when the first request fails the second is never
\* made; a loader is returned only when both requests succeeded.
C18_LoaderDelegatesInOrder ==
    ret.op = "get_delegate_loader" =>
        /\ Len(ret.calls) \in {1, 2}
        /\ ret.calls[1].call =
              DelegateCallOn(RetHandle, "hdt_load_assembly_and_get_function_pointer")
        /\ IF ret.calls[1].rc < 0
           THEN Len(ret.calls) = 1 /\ ret.res.tag = "Err" /\ ret.res.code = ret.calls[1].rc
           ELSE /\ Len(ret.calls) = 2
                /\ ret.calls[2].call = DelegateCallOn(RetHandle, "hdt_get_function_pointer")
                /\ ret.res = HostingResult_from(ret.calls[2].rc)
        /\ IF ret.res.tag = "Ok"
           THEN /\ \A k \in 1..2 : ret.calls[k].rc >= 0
                /\ ret.loader =
                      DelegateLoader(DelegatePtr("hdt_load_assembly_and_get_function_pointer"),
                                     DelegatePtr("hdt_get_function_pointer"))
           ELSE ret.loader = NoDelegateLoader

C18_Witness ==
    /\ ret.op = "get_delegate_loader" /\ ret.res.tag = "Err"
    /\ Len(ret.calls) = 1 /\ ret.calls[1].rc < 0

\* C19: an assembly-scoped loader starts Unloaded; it becomes Loaded only
\* in a get_function request that succeeds, and stays Loaded from then on; a
\* get_function request that fails while it is Unloaded leaves it Unloaded,
\* and every request made while it is Unloaded asks for the load again.
C19_UnloadedToLoadedOnce ==
    [][\A i \in Objs :
         /\ (loaders[i].st = "none" /\ loaders'[i].st = "made") => ~loaders'[i].loaded
         /\ (loaders[i].st = "made" /\ loaders[i].loaded)
              => (loaders'[i].st = "made" /\ loaders'[i].loaded)
         /\ (loaders[i].st = "made" /\ ~loaders[i].loaded /\ loaders'[i].loaded)
              => (GetFunctionStep(i) /\ ret'.res.tag = "Ok")
         /\ (GetFunctionStep(i) /\ ~loaders[i].loaded) =>
              /\ hostfxr'.last[1] = "load_assembly_and_get_function_pointer"
              /\ hostfxr'.last[3] = AssemblyPath(i) \o TypeName
              /\ loaders'[i].loaded = (ret'.res.tag = "Ok")
      ]_vars

C19_Witness ==
    /\ ret.op \in GetFunctionOps /\ ret.res.tag = "Err"
    /\ loaders[ret.obj].st = "made" /\ ~loaders[ret.obj].loaded
    /\ hostfxr.last[1] = "load_assembly_and_get_function_pointer"

----------------------------------------------------------------------------
(* Properties of platform strings *)

\* C13: for every text s without an embedded nul, PdCString::from_str(s)
\* succeeds and to_string() of the string it made returns Ok(s).
C13_FromStrToStringRoundTrip ==
    /\ (ret.op = "from_str" /\ NoNul(ret.name)) => ret.res.tag = "Ok"
    /\ (ret.op = "to_string" /\ ret.from = "from_str") =>
          /\ NoNul(ret.name)
          /\ ret.res.tag = "Ok"
          /\ ret.text = ret.name

C13_Witness ==
    /\ ret.op = "to_string" /\ ret.from = "from_str" /\ ~ret.flag
    /\ ret.text = ret.name
    /\ Len(ret.name) = 2
    /\ ret.name[1] = 233 /\ ret.name[2] = 128512

\* C14: making a platform string from a text, from an OsStr or from a vector
\* of code units fails with ContainsNul whenever the input contains a nul,
\* and then no string is made; for every input without a nul it succeeds.
C14_ContainsNulExactlyOnNul ==
    ret.op \in Constructors =>
        IF NoNul(ret.name)
        THEN /\ ret.res.tag = "Ok"
             /\ Len(ret.val) >= 1
             /\ ret.val[Len(ret.val)] = NUL
             /\ NoNul(SubSeq(ret.val, 1, Len(ret.val) - 1))
        ELSE /\ ret.res.tag = "Err"
             /\ ret.res.kind = "ContainsNul"
             /\ ret.val = NoStr

C14_Witness ==
    /\ ret.op = "from_vec" /\ ret.res.kind = "ContainsNul" /\ ret.val = NoStr
    /\ Len(ret.name) = 2 /\ ret.name[1] = 65 /\ ret.name[2] = NUL

----------------------------------------------------------------------------
(* Properties of the error paths *)

\* the native get-all call on handle h with the given buffers
GetAllCallOn(h, keys, values) == <<"hostfxr_get_runtime_properties", h, keys, values>>

\* C15: in the first call of get-all, "buffer too small" and success both
\* go on to the second call; any other error makes get-all return that error
\* at once: no second call is pending and the count is not read.
C15_FirstCallOtherErrorReturns ==
    [][\A i \in Objs, rc \in Phase1Codes :
         get_runtime_properties_ref_first_call_with(i, rc) =>
            /\ hostfxr'.last = GetAllCallOn(ctx[i].handle, NullPtr, NullPtr)
            /\ IF rc = HostApiBufferTooSmall \/ rc >= 0
               THEN /\ ctx'[i].st = "busy"
                    /\ ctx'[i].count = Cardinality(PresentKeys(hostfxr))
                    /\ ret' = NoRet
               ELSE /\ ctx'[i].st = "live" /\ ctx'[i].count = 0
                    /\ ret'.op = "get_all" /\ ret'.obj = i
                    /\ ret'.res.tag = "Err" /\ ret'.res = HostingResult_from(rc)
                    /\ ret'.keys = << >> /\ ret'.vals = << >>
                    /\ Len(ret'.calls) = 1
      ]_vars

C15_Witness ==
    /\ ret.op = "get_all" /\ ret.rc = HostInvalidState /\ ret.res.tag = "Err"
    /\ hostfxr.last = GetAllCallOn(RetHandle, NullPtr, NullPtr)
    /\ ctx[ret.obj].st = "live"

\* C16: when the second call of get-all reports "buffer too small" because
\* the property set grew after the first call, or any other error, get-all
\* returns that error without entries and without a third native call; it
\* never returns more entries than the capacity taken from the first call.
C16_SecondCallErrorNoRetry ==
    [][\A i \in Objs :
         (ctx[i].st = "busy" /\ ctx'[i].st # "busy") =>
            LET cap == ctx[i].count
            IN  /\ ret'.op = "get_all" /\ ret'.obj = i
                /\ Len(ret'.calls) = 1
                /\ ret'.calls[1].call = GetAllCallOn(ctx[i].handle, <<cap>>, <<cap>>)
                /\ hostfxr'.last = ret'.calls[1].call
                /\ Cardinality(PresentKeys(hostfxr)) > cap
                     => ret'.calls[1].rc = HostApiBufferTooSmall
                /\ ret'.calls[1].rc < 0 =>
                     /\ ret'.res = HostingResult_from(ret'.calls[1].rc)
                     /\ ret'.res.tag = "Err"
                     /\ ret'.keys = << >> /\ ret'.vals = << >>
                /\ Len(ret'.keys) <= cap /\ Len(ret'.vals) <= cap
      ]_vars

C16_Witness ==
    /\ ret.op = "get_all" /\ ret.res.kind = "HostApiBufferTooSmall"
    /\ ret.cap < Cardinality(PresentKeys(hostfxr))
    /\ hostfxr.last = GetAllCallOn(RetHandle, <<ret.cap>>, <<ret.cap>>)
    /\ ret.keys = << >>

FallibleOps == {"get", "set", "remove", "get_all", "get_runtime_delegate", "close"}

\* C17: when the native call of get, set, remove, the second call of
\* get-all, get_runtime_delegate or close returns an error code, the operation
\* returns the HostingError of that code, reads no output parameter and makes
\* no further native call; the close made when a context is dropped is the
\* one whose error is not returned.
C17_NativeErrorIsReturned ==
    /\ (ret.op \in FallibleOps /\ ret.rc < 0) =>
          /\ Len(ret.calls) = 1
          /\ ret.calls[1].rc = ret.rc
          /\ hostfxr.last = ret.calls[1].call
          /\ ret.res.tag = "Err"
          /\ ret.res = HostingResult_from(ret.rc)
          /\ ret.op \in {"get", "get_runtime_delegate"} => ret.val = NoStr
          /\ ret.keys = << >> /\ ret.vals = << >> /\ ~ret.ub
    /\ (ret.op \in FallibleOps /\ ret.rc >= 0) => ret.res.tag = "Ok"
    /\ ret.op = "drop" => ret.res = UnitResult

C17_Witness ==
    /\ ret.op = "get_runtime_delegate" /\ ret.rc < 0
    /\ ret.res.tag = "Err" /\ ret.val = NoStr
    /\ hostfxr.last[1] = "hostfxr_get_runtime_delegate"

----------------------------------------------------------------------------
(* Properties of the value run_app returns *)

\* C21: the value run_app returns keeps the integer the native run app
\* returned: value() is that integer and as_hosting_exit_code() is the
\* hosting-result decoding of it; an integer equal to a known hosting result
\* code decodes to that hosting result whether the app ran or not.
C21_RunAppKeepsNativeInteger ==
    ret.op = "run_app" =>
        /\ ret.calls[1].call[1] = "hostfxr_run_app"
        /\ ret.res.code = ret.calls[1].rc
        /\ ret.hosting = HostingResult_from(ret.calls[1].rc)
        /\ ret.exit # NoCode => ret.res.code = ret.exit
        /\ ret.calls[1].rc = HostInvalidState => ret.hosting.kind = "HostInvalidState"
        /\ ret.calls[1].rc = InvalidArgFailure => ret.hosting.kind = "InvalidArgFailure"

\* the app ran and exited with an integer that is a hosting result code
C21_Witness ==
    /\ ret.op = "run_app"
    /\ ret.exit = HostInvalidState
    /\ ret.res.code = HostInvalidState
    /\ ret.hosting.kind = "HostInvalidState"
    /\ RetHandle \in hostfxr.ranApp

----------------------------------------------------------------------------
(* Owned property results and borrowed views *)

\* the safety contract of the borrowed getters: the buffer a view points into
\* is still the one the native side handed out
BufferValid(view, s) ==
    /\ s.epoch = view.epoch
    /\ view.h \in s.open
    /\ s.runCalls[view.h] = 0

\* what the host program can read from a value it holds: an owned value
\* shows its own content; a view shows the native buffer while that is valid,
\* and afterwards whatever lies at the stale address
Reads(v, s) ==
    IF v.kind = "owned" THEN {v.content}
    ELSE IF BufferValid(v, s) THEN {from_str_ptr(s.props[as_ptr(v.name)])}
    ELSE {v.snap, Garbage, from_str_ptr(s.props[as_ptr(v.name)])}

\* the step ends the validity of the views taken from context handle h
Invalidates(h) ==
    \/ ret'.op \in {"set", "remove"} /\ ret'.res.tag = "Ok"
    \/ ret'.op \in {"run_app", "close", "drop"} /\ ctx[ret'.obj].handle = h

----------------------------------------------------------------------------
(* run_app and the release of the context *)

\* the step takes context i out of the hands of the host program
Ends(i) == ctx[i].st # "gone" /\ ctx'[i].st = "gone"

\* C23: run_app on a command-line context makes two native calls on its
\* handle, hostfxr_run_app and then hostfxr_close, the close exactly once and
\* after the run has returned, whatever the run returned and whatever the
\* close returned: the result is the run's integer.  Every step that ends a
\* context other than into_handle raises the close count of its handle from 0
\* to 1 and of no other handle, and no other step calls close.
C23_CloseOnceAfterRunApp ==
    [][/\ \A i \in Objs : Ends(i) /\ ret'.op # "into_handle" =>
            /\ ret'.op \in {"run_app", "close", "drop"}
            /\ ret'.obj = i
            /\ hostfxr.closeCalls[ctx[i].handle] = 0
            /\ hostfxr'.closeCalls =
                   [hostfxr.closeCalls EXCEPT ![ctx[i].handle] = 1]
            /\ ctx[i].handle \notin hostfxr'.open
            /\ hostfxr'.last = <<"hostfxr_close", ctx[i].handle, NullPtr, NullPtr>>
       /\ Ready /\ ret'.op = "run_app" =>
            /\ Ends(ret'.obj)
            /\ ctx[ret'.obj].tag = InitializedForCommandLine
            /\ Len(ret'.calls) = 2
            /\ ret'.calls[1].call =
                   <<"hostfxr_run_app", ctx[ret'.obj].handle, NullPtr, NullPtr>>
            /\ ret'.calls[2].call =
                   <<"hostfxr_close", ctx[ret'.obj].handle, NullPtr, NullPtr>>
            /\ hostfxr'.runCalls[ctx[ret'.obj].handle] = 1
            /\ ret'.res = [tag |-> "App", code |-> ret'.calls[1].rc,
                           kind |-> HostingResult_from(ret'.calls[1].rc).tag]
       /\ hostfxr'.closeCalls # hostfxr.closeCalls =>
            \E i \in Objs : Ends(i) /\ ret'.op # "into_handle"
      ]_vars

\* run_app returned a hosting error, the close that followed failed, and the
\* handle has been closed once
C23_Witness ==
    /\ ret.op = "run_app"
    /\ ret.exit = NoCode
    /\ ret.res.code = InvalidArgFailure
    /\ Len(ret.calls) = 2
    /\ ret.calls[2].rc = InvalidArgFailure
    /\ hostfxr.closeCalls[RetHandle] = 1
    /\ hostfxr.runCalls[RetHandle] = 1
    /\ RetHandle \notin hostfxr.open

----------------------------------------------------------------------------
(* Raw handles *)

\* C24: into_handle ends the context and returns its handle without any
\* native call: the close count and the set of open contexts are as before, so
\* the native context stays open.  handle() returns the same handle and leaves
\* the context, the native side and the context's later close as they are.
\* from_handle makes no native call either; native close is called only by a
\* step that closes or drops a context value, on the handle of that value, so
\* a released handle is closed only through a context rebuilt around it.
C24_IntoHandleLeavesContextOpen ==
    [][/\ Ready /\ ret'.op = "into_handle" =>
            /\ Ends(ret'.obj)
            /\ ret'.handle = ctx[ret'.obj].handle
            /\ hostfxr' = hostfxr
            /\ hostfxr.closeCalls[ret'.handle] = 0
            /\ ret'.handle \in hostfxr'.open
            /\ \A j \in Objs : ctx'[j].st \in {"live", "busy"} =>
                                  ctx'[j].handle # ret'.handle
       /\ Ready /\ ret'.op = "handle" =>
            /\ ret'.handle = ctx[ret'.obj].handle
            /\ ctx' = ctx
            /\ ctx[ret'.obj].st = "live"
            /\ hostfxr' = hostfxr
       /\ Ready /\ ret'.op = "from_handle" =>
            /\ ctx'[ret'.obj] = HostfxrContext(ret'.handle, InitializedForRuntimeConfig)
            /\ hostfxr' = hostfxr
       /\ \A h \in Handles : hostfxr'.closeCalls[h] # hostfxr.closeCalls[h] =>
            /\ ret'.op \in {"close", "drop"}
            /\ ctx[ret'.obj].st = "live"
            /\ ctx[ret'.obj].handle = h
            /\ hostfxr.closeCalls[h] = 0
      ]_vars

\* a handle was released by into_handle, a context was rebuilt around it by
\* from_handle, and closing that context closed the handle, once
C24_Witness ==
    /\ ret.op = "close"
    /\ ret.obj = 2
    /\ ctx[1].st = "gone" /\ ctx[1].handle = 1
    /\ ctx[2].st = "gone" /\ ctx[2].handle = 1
    /\ hostfxr.closeCalls[1] = 1
    /\ 1 \notin hostfxr.open

========================================================================
